---------------------------- MODULE Spec2Model ----------------------------
(***************************************************************************)
(* treesaver: the document index (treesaver.ui.Index, src/lib/array.js),   *)
(* the settings store (treesaver.ui.Settings, src/ui/settings.js) and      *)
(* treesaver.array.remove (src/lib/array.js).                              *)
(*                                                                         *)
(* The Index is the root of a tree of Documents.  parse() builds Documents *)
(* from a nested descriptor list and attaches them; update() linearises    *)
(* the tree into three caches (documents, documentMap, documentPositions)  *)
(* and fires an event; get() and getDocumentIndex() walk the live tree.    *)
(*                                                                         *)
(* Documents are heap objects: `nodes` is the heap, a Document's identity  *)
(* is its position in it.  JavaScript arrays are 0-based, so a position    *)
(* i of a JavaScript array is element i + 1 of the sequence modelling it.  *)
(* Strings (urls, JSON text) are sequences of tokens; '' is <<>>.          *)
(* Document.meta is not modelled: no operation of the Index reads it.      *)
(***************************************************************************)
EXTENDS Integers, Sequences, FiniteSets, TLC

VARIABLES
    children,           \* Index.children: the top-level Documents
    nodes,              \* the Documents created so far: [url, children]
    documents,          \* Index.documents
    documentMap,        \* Index.documentMap: url -> Documents
    documentPositions,  \* Index.documentPositions: url -> flat positions
    fired,              \* the events dispatched by the most recent call
    call,               \* the most recent call: [op, arg, ret]
    lastUpdate,         \* history: the caches as the latest update() left them
    settings,           \* Settings.settings: the own properties of the object
    written,            \* history: the value of the latest set() per name
    array               \* the array treesaver.array.remove works on

\* The variables of the Index, and those of the other two components.
indexVars == <<children, nodes, documents, documentMap, documentPositions,
               lastUpdate>>
otherVars == <<settings, written, array>>

vars == <<children, nodes, documents, documentMap, documentPositions,
          fired, call, lastUpdate, settings, written, array>>

--------------------------------------------------------------------------
(* Bounds *)

\* Documents the heap may hold.
MaxNodes == 3

\* Entries (at all depths together) of one descriptor array given to parse.
MaxEntries == 3

--------------------------------------------------------------------------
(* Values *)

\* `doc = null`, `return null`: no Document.  Documents are numbered from 1.
Null == 0

\* The base that treesaver.network.absoluteURL resolves against.
Origin == "http://h"

\* The url values of descriptor entries: '' (as falsy as a missing field),
\* '/a', '/a#x' and 'http://h/b'.
RawUrls == { <<>>, <<"/a">>, <<"/a", "#", "x">>, <<Origin, "/b">> }

\* treesaver.network.absoluteURL: resolve against the base.
absoluteURL(url) ==
    IF url # <<>> /\ Head(url) = Origin THEN url ELSE <<Origin>> \o url

\* treesaver.uri.stripHash: drop the fragment identifier.
RECURSIVE stripHash(_)
stripHash(url) ==
    IF url = <<>> \/ Head(url) = "#" THEN <<>>
    ELSE <<Head(url)>> \o stripHash(Tail(url))

\* The canonical urls the entries above give, and one no entry gives.
CanonicalUrls == { stripHash(absoluteURL(u)) : u \in RawUrls \ {<<>>} }
MissingUrl == <<Origin, "/missing">>

\* new treesaver.ui.Document(url, meta): a TreeNode with a url.
Document(url) == [url |-> url, children |-> <<>>]

\* Document.prototype.equals: `other` is a Document or a url string.
equals(doc, other) ==
    doc.url = (IF other.type = "string" THEN other.value ELSE other.url)

\* TreeNode.prototype.appendChild on a children list: a null node is
\* handed back and nothing is attached.
appendChild(kids, node) ==
    IF node = Null THEN kids ELSE Append(kids, node)

--------------------------------------------------------------------------
(* Descriptors *)

\* The `children` field of an entry as parseEntry tests it.
Kids(items) == [isArray |-> items # <<>>, items |-> items]

\* The descriptor arrays with exactly k entries, all depths together.
RECURSIVE Forests(_)
Forests(k) ==
    IF k = 0 THEN { <<>> }
    ELSE UNION { { <<[url |-> u, children |-> Kids(c)]>> \o rest :
                     u \in RawUrls, c \in Forests(j - 1), rest \in Forests(k - j) } :
                 j \in 1..k }

Arrays == UNION { Forests(k) : k \in 0..MaxEntries }

\* JSON text, token by token.
RECURSIVE stringifyEntries(_)
stringifyEntries(items) ==
    IF items = <<>> THEN <<>>
    ELSE <<"{", "url:">> \o Head(items).url
         \o (IF Head(items).children.isArray
             THEN <<"children:", "[">> \o stringifyEntries(Head(items).children.items) \o <<"]">>
             ELSE <<>>)
         \o <<"}">> \o stringifyEntries(Tail(items))

stringify(value) ==
    CASE value.type = "array"  -> <<"[">> \o stringifyEntries(value.items) \o <<"]">>
      [] value.type = "object" -> <<"{", "}">>
      [] OTHER                 -> <<"null">>

ArrayValue(items) == [type |-> "array", items |-> items, text |-> <<>>]
ObjectValue == [type |-> "object", items |-> <<>>, text |-> <<>>]
NullValue == [type |-> "null", items |-> <<>>, text |-> <<>>]
StringValue(text) == [type |-> "string", items |-> <<>>, text |-> text]

\* The values JSON text may decode to.
JsonValues == { ArrayValue(f) : f \in Forests(0) \cup Forests(1) }
                  \cup { ObjectValue, NullValue }

\* treesaver.json.parse: strict; a text that encodes no value throws.
Throws == [type |-> "throw", items |-> <<>>, text |-> <<>>]
json_parse(text) ==
    IF \E v \in JsonValues : stringify(v) = text
    THEN CHOOSE v \in JsonValues : stringify(v) = text
    ELSE Throws

\* What parse may be given: falsy values, strings (well-formed, and
\* truncated ones), a non-array object, and arrays.
Strings == { stringify(v) : v \in JsonValues }
             \cup { SubSeq(stringify(v), 1, Len(stringify(v)) - 1) : v \in JsonValues }
Inputs == { NullValue, ObjectValue }
            \cup { StringValue(t) : t \in Strings }
            \cup { ArrayValue(f) : f \in Arrays }

Falsy(value) == value.type = "null" \/ (value.type = "string" /\ value.text = <<>>)

\* The entries an input holds, all depths together.
RECURSIVE EntryCount(_)
EntryCount(items) ==
    IF items = <<>> THEN 0
    ELSE 1 + EntryCount(Head(items).children.items) + EntryCount(Tail(items))

Size(index) ==
    CASE index.type = "array"  -> EntryCount(index.items)
      [] index.type = "string" -> EntryCount(json_parse(index.text).items)
      [] OTHER                 -> 0

\* The inputs of at most k entries.
InputsUpTo == [k \in 0..MaxEntries |-> { index \in Inputs : Size(index) <= k }]

\* The inputs whose entries, were each to become a Document, fit a heap
\* that has room for `room` more.
Fitting(room) == InputsUpTo[IF room < MaxEntries THEN room ELSE MaxEntries]

--------------------------------------------------------------------------
(* The Index object and its methods.  `heap` is the Document heap and     *)
(* `this` the Index: [children, documents, documentMap, documentPositions] *)

\* treesaver.ui.Index: the state a new Index starts in.
NewIndex ==
    [children |-> <<>>, documentMap |-> <<>>, documentPositions |-> <<>>,
     documents |-> <<>>]

RECURSIVE parseEntry(_, _), forEachChild(_, _, _, _)

\* parseEntry, were it to keep the fragment identifier.
parseEntry_keepsHash(heap, entry) ==
    IF entry.url = <<>>
    THEN [heap |-> heap, doc |-> Null]
    ELSE LET url == absoluteURL(entry.url)
             doc == Len(heap) + 1
             made == Append(heap, Document(url))
         IN  IF entry.children.isArray
             THEN [heap |-> forEachChild(made, doc, entry.children.items, 1),
                   doc |-> doc]
             ELSE [heap |-> made, doc |-> doc]

\* parseEntry, were it to look for the url only after building the Document
\* and its children.
parseEntry_checksLate(heap, entry) ==
    LET url == stripHash(absoluteURL(entry.url))
        doc == Len(heap) + 1
        made == Append(heap, Document(url))
        built == IF entry.children.isArray
                 THEN forEachChild(made, doc, entry.children.items, 1)
                 ELSE made
    IN  [heap |-> built, doc |-> IF entry.url = <<>> THEN Null ELSE doc]

\* parseEntry: a Document for the entry and, below it, for its children;
\* null for an entry without url.  Gives the heap afterwards and the Document.
parseEntry(heap, entry) ==
    IF entry.url = <<>>
    THEN [heap |-> heap, doc |-> Null]
    ELSE LET url == stripHash(absoluteURL(entry.url))
             doc == Len(heap) + 1
             made == Append(heap, Document(url))
         IN  IF entry.children.isArray
             THEN [heap |-> forEachChild(made, doc, entry.children.items, 1),
                   doc |-> doc]
             ELSE [heap |-> made, doc |-> doc]

\* forEachChild, were it to push what parseEntry gives onto the children.
forEachChild_pushes(heap, doc, items, i) ==
    IF i > Len(items) THEN heap
    ELSE LET r == parseEntry(heap, items[i])
         IN  forEachChild(
                 [r.heap EXCEPT ![doc].children = Append(@, r.doc)],
                 doc, items, i + 1)

\* children.forEach(function (child) { doc.appendChild(this.parseEntry(child)) })
forEachChild(heap, doc, items, i) ==
    IF i > Len(items) THEN heap
    ELSE LET r == parseEntry(heap, items[i])
         IN  forEachChild(
                 [r.heap EXCEPT ![doc].children = appendChild(@, r.doc)],
                 doc, items, i + 1)

\* What a visitor may return; only "false" is the boolean false.
ReturnValues == { "false", "undefined", "null", "0", "''", "true" }

\* A visitor without a return statement.
NoReturn(heap) == [d \in 1..Len(heap) |-> "undefined"]

\* every, were the walk to skip only the subtree of the Document the visitor
\* returns false on and go on with the siblings.
RECURSIVE walk(_, _, _, _), every(_, _, _, _, _)
every_prunes(heap, kids, i, fn, visited) ==
    IF i > Len(kids) THEN [result |-> TRUE, visited |-> visited]
    ELSE LET entry == kids[i]
             seen == Append(visited, entry)
         IN  IF fn[entry] = "false"
             THEN every(heap, kids, i + 1, fn, seen)
             ELSE LET below == walk(heap, heap[entry].children, fn, seen)
                  IN  every(heap, kids, i + 1, fn, below.visited)

\* walk, were it not to descend into the children.
walk_shallow(heap, kids, fn, visited) ==
    [result |-> \A i \in 1..Len(kids) : fn[kids[i]] # "false", visited |-> visited \o kids]

\* walk, with Array.prototype.every written out: fn is the visitor's return
\* value per Document, `visited` the Documents fn was called on, in order.
\* Gives every's result and the Documents visited.
walk(heap, kids, fn, visited) == every(heap, kids, 1, fn, visited)

every(heap, kids, i, fn, visited) ==
    IF i > Len(kids) THEN [result |-> TRUE, visited |-> visited]
    ELSE LET entry == kids[i]
             seen == Append(visited, entry)
         IN  IF fn[entry] = "false"
             THEN [result |-> FALSE, visited |-> seen]
             ELSE LET below == walk(heap, heap[entry].children, fn, seen)
                  IN  IF ~below.result THEN below
                      ELSE every(heap, kids, i + 1, fn, below.visited)

\* The Documents a walk with a visitor that never returns false calls it on.
Visited(heap, this) == walk(heap, this.children, NoReturn(heap), <<>>).visited

\* update's visitor, were it not to count the Documents it is called on.
RECURSIVE updateVisit(_, _, _, _)
updateVisit_sameIndex(heap, this, docs, index) ==
    IF docs = <<>> THEN this
    ELSE LET doc == Head(docs)
             url == heap[doc].url
             map == IF url \in DOMAIN this.documentMap
                    THEN [this.documentMap EXCEPT ![url] = Append(@, doc)]
                    ELSE (url :> <<doc>>) @@ this.documentMap
             pos == IF url \in DOMAIN this.documentPositions
                    THEN [this.documentPositions EXCEPT ![url] = Append(@, index)]
                    ELSE (url :> <<index>>) @@ this.documentPositions
         IN  updateVisit(heap,
                 [this EXCEPT !.documentMap = map,
                              !.documents = Append(@, doc),
                              !.documentPositions = pos],
                 Tail(docs), index)

\* update's visitor, were it to assign a fresh list where it should push.
updateVisit_overwrites(heap, this, docs, index) ==
    IF docs = <<>> THEN this
    ELSE LET doc == Head(docs)
             url == heap[doc].url
         IN  updateVisit(heap,
                 [this EXCEPT !.documentMap = (url :> <<doc>>) @@ @,
                              !.documents = Append(@, doc),
                              !.documentPositions = (url :> <<index>>) @@ @],
                 Tail(docs), index + 1)

\* update's visitor, applied to the Documents in the order walk calls it.
updateVisit(heap, this, docs, index) ==
    IF docs = <<>> THEN this
    ELSE LET doc == Head(docs)
             url == heap[doc].url
             map == IF url \in DOMAIN this.documentMap
                    THEN [this.documentMap EXCEPT ![url] = Append(@, doc)]
                    ELSE (url :> <<doc>>) @@ this.documentMap
             pos == IF url \in DOMAIN this.documentPositions
                    THEN [this.documentPositions EXCEPT ![url] = Append(@, index)]
                    ELSE (url :> <<index>>) @@ this.documentPositions
         IN  updateVisit(heap,
                 [this EXCEPT !.documentMap = map,
                              !.documents = Append(@, doc),
                              !.documentPositions = pos],
                 Tail(docs), index + 1)

\* treesaver.events.fireEvent(document, UPDATED, {'index': this}): the event
\* carries the Index as it is when the event is dispatched.
UpdatedEvent(this) == [type |-> "treesaver.index.updated", index |-> this]

\* update, were it to fire the event before the walk.
update_firesFirst(heap, this) ==
    LET cleared == [this EXCEPT !.documents = <<>>,
                                !.documentMap = <<>>,
                                !.documentPositions = <<>>]
        filled == updateVisit(heap, cleared, Visited(heap, cleared), 0)
    IN  [this |-> filled, fired |-> << UpdatedEvent(cleared) >>,
         old |-> [documents |-> this.documents, documentMap |-> this.documentMap,
                  documentPositions |-> this.documentPositions]]

\* update, were it to empty the array and the two objects it has (length = 0,
\* delete each key) and fill them again.
update_inPlace(heap, this) ==
    LET cleared == [this EXCEPT !.documents = <<>>,
                                !.documentMap = <<>>,
                                !.documentPositions = <<>>]
        filled == updateVisit(heap, cleared, Visited(heap, cleared), 0)
    IN  [this |-> filled, fired |-> << UpdatedEvent(filled) >>,
         old |-> [documents |-> filled.documents, documentMap |-> filled.documentMap,
                  documentPositions |-> filled.documentPositions]]

\* update: gives the Index afterwards and the events fired.  The three
\* fields are assigned a new array and new objects, so the array and objects
\* that were there (and that callers may hold) stay as they were: `old` is
\* what they hold after the call.
update(heap, this) ==
    LET cleared == [this EXCEPT !.documents = <<>>,
                                !.documentMap = <<>>,
                                !.documentPositions = <<>>]
        filled == updateVisit(heap, cleared, Visited(heap, cleared), 0)
    IN  [this |-> filled, fired |-> << UpdatedEvent(filled) >>,
         old |-> [documents |-> this.documents, documentMap |-> this.documentMap,
                  documentPositions |-> this.documentPositions]]

\* getDocumentByIndex, were a negative index to count from the end.
getDocumentByIndex_fromEnd(this, index) ==
    LET at == IF index < 0 THEN Len(this.documents) + index ELSE index
    IN  IF at \in 0..(Len(this.documents) - 1)
        THEN [type |-> "Document", doc |-> this.documents[at + 1]]
        ELSE [type |-> "undefined"]

\* this.documents[index]: undefined outside the array.
getDocumentByIndex(this, index) ==
    IF index \in 0..(Len(this.documents) - 1)
    THEN [type |-> "Document", doc |-> this.documents[index + 1]]
    ELSE [type |-> "undefined"]

getNumberOfDocuments(this) == Len(this.documents)

getDocuments(this) == this.documents

\* getDocumentIndex's visitor, were it to keep the first match.
RECURSIVE indexVisit(_, _, _, _, _)
indexVisit_firstMatch(heap, docs, doc, result, i) ==
    IF docs = <<>> THEN result
    ELSE indexVisit(heap, Tail(docs), doc,
                    IF equals(heap[Head(docs)], doc) /\ result = -1 THEN i ELSE result,
                    i + 1)

\* getDocumentIndex's visitor over the Documents walk calls it on.
indexVisit(heap, docs, doc, result, i) ==
    IF docs = <<>> THEN result
    ELSE indexVisit(heap, Tail(docs), doc,
                    IF equals(heap[Head(docs)], doc) THEN i ELSE result,
                    i + 1)

\* getDocumentIndex, were it to count the Documents from 1.
getDocumentIndex_oneBased(heap, this, doc) ==
    indexVisit(heap, Visited(heap, this), doc, -1, 1)

getDocumentIndex(heap, this, doc) ==
    indexVisit(heap, Visited(heap, this), doc, -1, 0)

\* get's visitor over the Documents walk calls it on.
RECURSIVE getVisit(_, _, _, _)
getVisit(heap, docs, url, result) ==
    IF docs = <<>> THEN result
    ELSE getVisit(heap, Tail(docs), url,
                  IF equals(heap[Head(docs)], [type |-> "string", value |-> url])
                  THEN Append(result, Head(docs)) ELSE result)

\* get, were it to answer from documentMap.
get_cached(heap, this, url) ==
    IF url \in DOMAIN this.documentMap THEN this.documentMap[url] ELSE <<>>

get(heap, this, url) == getVisit(heap, Visited(heap, this), url, <<>>)

\* index.map(function (entry) { return this.parseEntry(entry) })
RECURSIVE mapParseEntry(_, _, _, _)
mapParseEntry(heap, items, i, result) ==
    IF i > Len(items) THEN [heap |-> heap, result |-> result]
    ELSE LET r == parseEntry(heap, items[i])
         IN  mapParseEntry(r.heap, items, i + 1, Append(result, r.doc))

\* result.map(function (entry) { return this.appendChild(entry) })
RECURSIVE mapAppendChild(_, _, _)
mapAppendChild(kids, result, i) ==
    IF i > Len(result) THEN kids
    ELSE mapAppendChild(appendChild(kids, result[i]), result, i + 1)

\* parse, were it to refresh the caches after attaching.
parse_refreshes(heap, this, index) ==
    LET decoded == IF index.type = "string" THEN json_parse(index.text) ELSE index
        mapped == mapParseEntry(heap, decoded.items, 1, <<>>)
        result == SelectSeq(mapped.result, LAMBDA entry : entry # Null)
        attached == [this EXCEPT !.children = mapAppendChild(@, result, 1)]
    IN  IF Falsy(index) \/ decoded.type # "array"
        THEN [heap |-> heap, this |-> this, ret |-> <<>>, raised |-> FALSE]
        ELSE [heap |-> mapped.heap, this |-> update(mapped.heap, attached).this,
              ret |-> result, raised |-> FALSE]

\* parse, were it to put the new Documents in place of the children.
parse_replaces(heap, this, index) ==
    LET decoded == IF index.type = "string" THEN json_parse(index.text) ELSE index
        mapped == mapParseEntry(heap, decoded.items, 1, <<>>)
        result == SelectSeq(mapped.result, LAMBDA entry : entry # Null)
    IN  IF Falsy(index) \/ decoded.type # "array"
        THEN [heap |-> heap, this |-> this, ret |-> <<>>, raised |-> FALSE]
        ELSE [heap |-> mapped.heap, this |-> [this EXCEPT !.children = result],
              ret |-> result, raised |-> FALSE]

\* parse, were the decoder's exception to reach the caller.
parse_uncaught(heap, this, index) ==
    LET decoded == IF index.type = "string" THEN json_parse(index.text) ELSE index
        mapped == mapParseEntry(heap, decoded.items, 1, <<>>)
        result == SelectSeq(mapped.result, LAMBDA entry : entry # Null)
    IN  IF decoded.type = "throw"
        THEN [heap |-> heap, this |-> this, ret |-> <<>>, raised |-> TRUE]
        ELSE [heap |-> mapped.heap,
              this |-> [this EXCEPT !.children = mapAppendChild(@, result, 1)],
              ret |-> result, raised |-> FALSE]

\* parse: gives the heap and the Index afterwards, the value returned, and
\* whether an exception reaches the caller (the decoder's is caught).
parse(heap, this, index) ==
    LET nothing == [heap |-> heap, this |-> this, ret |-> <<>>, raised |-> FALSE]
        decoded == IF index.type = "string" THEN json_parse(index.text) ELSE index
    IN  IF Falsy(index) THEN nothing
        ELSE IF decoded.type = "throw" THEN nothing
        ELSE IF decoded.type # "array" THEN nothing
        ELSE LET mapped == mapParseEntry(heap, decoded.items, 1, <<>>)
                 result == SelectSeq(mapped.result, LAMBDA entry : entry # Null)
             IN  [heap |-> mapped.heap,
                  this |-> [this EXCEPT !.children = mapAppendChild(@, result, 1)],
                  ret |-> result, raised |-> FALSE]

--------------------------------------------------------------------------
(* The state machine: one action per call on the Index *)

This ==
    [children |-> children, documentMap |-> documentMap,
     documentPositions |-> documentPositions, documents |-> documents]

Caches(this) ==
    [documents |-> this.documents, documentMap |-> this.documentMap,
     documentPositions |-> this.documentPositions]

\* The Index becomes `this`.
Becomes(this) ==
    /\ children' = this.children
    /\ documents' = this.documents
    /\ documentMap' = this.documentMap
    /\ documentPositions' = this.documentPositions

Init ==
    /\ children = NewIndex.children
    /\ documents = NewIndex.documents
    /\ documentMap = NewIndex.documentMap
    /\ documentPositions = NewIndex.documentPositions
    /\ nodes = <<>>
    /\ fired = <<>>
    /\ call = [op |-> "new"]
    /\ lastUpdate = Caches(NewIndex)
    /\ settings = <<>>
    /\ written = <<>>
    /\ array = <<>>

Parse(index) ==
    LET r == parse(nodes, This, index)
    IN  /\ Len(nodes) + Size(index) <= MaxNodes
        /\ nodes' = r.heap
        /\ Becomes(r.this)
        /\ fired' = <<>>
        /\ call' = [op |-> "parse", arg |-> index, ret |-> r.ret,
                    raised |-> r.raised]
        /\ UNCHANGED lastUpdate
        /\ UNCHANGED otherVars

\* parent.appendChild(node) by the owner of the tree: parent is the Index (0)
\* or a Document; node is null, or a Document made for the purpose.
AppendChild(parent, node, url) ==
    LET heap == IF node = Null THEN nodes ELSE Append(nodes, Document(url))
    IN  /\ Len(nodes) < MaxNodes
        /\ node \in {Null, Len(nodes) + 1}
        /\ IF parent = 0
           THEN /\ children' = appendChild(children, node)
                /\ nodes' = heap
           ELSE /\ nodes' = [heap EXCEPT ![parent].children = appendChild(@, node)]
                /\ UNCHANGED children
        /\ fired' = <<>>
        /\ call' = [op |-> "appendChild", arg |-> parent, ret |-> node]
        /\ UNCHANGED <<documents, documentMap, documentPositions, lastUpdate>>
        /\ UNCHANGED otherVars

Update ==
    LET r == update(nodes, This)
    IN  /\ Becomes(r.this)
        /\ fired' = r.fired
        /\ call' = [op |-> "update", old |-> r.old]
        /\ lastUpdate' = Caches(r.this)
        /\ UNCHANGED nodes
        /\ UNCHANGED otherVars

\* A call that reads: the state stays, the call and its result are recorded.
Reads(op, arg, ret) ==
    /\ fired' = <<>>
    /\ call' = [op |-> op, arg |-> arg, ret |-> ret]
    /\ UNCHANGED <<children, nodes, documents, documentMap, documentPositions,
                   lastUpdate>>
    /\ UNCHANGED otherVars

Walk(fn) ==
    Reads("walk", fn, walk(nodes, children, fn, <<>>))

GetDocumentByIndex(index) ==
    Reads("getDocumentByIndex", index, getDocumentByIndex(This, index))

GetNumberOfDocuments ==
    Reads("getNumberOfDocuments", <<>>, getNumberOfDocuments(This))

GetDocuments ==
    Reads("getDocuments", <<>>, getDocuments(This))

GetDocumentIndex(url) ==
    Reads("getDocumentIndex", url,
          getDocumentIndex(nodes, This, [type |-> "Document", url |-> url]))

Get(url) ==
    Reads("get", url, get(nodes, This, url))

\* The visitors tried: one that returns false on one Document and nothing
\* on the others, and those that return the same value whatever the Document.
Visitors ==
    { [d \in 1..Len(nodes) |-> IF d = at THEN "false" ELSE "undefined"] :
        at \in 1..Len(nodes) }
    \cup { [d \in 1..Len(nodes) |-> v] : v \in ReturnValues }

Next ==
    \/ \E index \in Fitting(MaxNodes - Len(nodes)) : Parse(index)
    \/ \E parent \in 0..Len(nodes), url \in CanonicalUrls :
            AppendChild(parent, Len(nodes) + 1, url)
    \/ \E parent \in 0..Len(nodes) :
            AppendChild(parent, Null, MissingUrl)
    \/ Update
    \/ \E fn \in Visitors : Walk(fn)
    \/ \E index \in -1..Len(documents) : GetDocumentByIndex(index)
    \/ GetNumberOfDocuments
    \/ GetDocuments
    \/ \E url \in CanonicalUrls \cup {MissingUrl} : GetDocumentIndex(url)
    \/ \E url \in CanonicalUrls \cup {MissingUrl} : Get(url)

Spec == Init /\ [][Next]_vars

--------------------------------------------------------------------------
(* treesaver.ui.Settings.  An object is a function from its own property   *)
(* names to their values.                                                  *)

\* The names and values tried; "hasOwnProperty" is the name of the method of
\* Object.prototype that get() calls on the settings object.
Names == { "a", "b", "hasOwnProperty" }
Values == { "v1", "v2" }
Defaults == { "d1", "d2" }

\* What the constructor may be given: nothing, or an object.
NoObject == [given |-> FALSE, object |-> <<>>]
Objects ==
    { [given |-> TRUE, object |-> o] :
        o \in UNION { [keys -> Values] : keys \in SUBSET {"a", "b"} } }

\* Object.keys(obj, fn, thisArg): the own keys of obj.  Object.keys takes one
\* argument: the function handed to it, here given as what it would assign
\* for each key, is not called, and thisArg is as it was.
ObjectKeys(obj, fn, thisArg) == [ret |-> DOMAIN obj, thisArg |-> thisArg]

\* new treesaver.ui.Settings(s): the settings the object starts with.  The
\* function handed to Object.keys would assign s[key] to settings[key].
Settings(s) ==
    IF s.given
    THEN ObjectKeys(s.object, [key \in DOMAIN s.object |-> s.object[key]], <<>>).thisArg
    ELSE <<>>

\* Settings.prototype.get.  this.settings.hasOwnProperty is the settings
\* object's own property of that name when it has one, and calling it, a
\* string, raises a TypeError; else it is Object.prototype's method.
Settings_get(this, name, defaultValue) ==
    IF "hasOwnProperty" \in DOMAIN this
    THEN [raised |-> TRUE, ret |-> "TypeError"]
    ELSE IF name \in DOMAIN this
    THEN [raised |-> FALSE, ret |-> this[name]]
    ELSE [raised |-> FALSE, ret |-> defaultValue]

\* Settings.prototype.set.
Settings_set(this, name, value) ==
    [settings |-> (name :> value) @@ this, ret |-> value]

IndexIdle ==
    /\ fired' = fired
    /\ UNCHANGED indexVars

InitSettings ==
    /\ children = NewIndex.children
    /\ documents = NewIndex.documents
    /\ documentMap = NewIndex.documentMap
    /\ documentPositions = NewIndex.documentPositions
    /\ nodes = <<>>
    /\ fired = <<>>
    /\ lastUpdate = Caches(NewIndex)
    /\ array = <<>>
    /\ written = <<>>
    /\ \E s \in Objects \cup {NoObject} :
          /\ settings = Settings(s)
          /\ call = [op |-> "Settings", arg |-> s]

SettingsGet(name, defaultValue) ==
    LET r == Settings_get(settings, name, defaultValue)
    IN  /\ call' = [op |-> "Settings.get",
                    arg |-> [name |-> name, defaultValue |-> defaultValue],
                    ret |-> r.ret, raised |-> r.raised]
        /\ UNCHANGED <<settings, written, array>>
        /\ IndexIdle

SettingsSet(name, value) ==
    LET r == Settings_set(settings, name, value)
    IN  /\ settings' = r.settings
        /\ written' = (name :> value) @@ written
        /\ call' = [op |-> "Settings.set",
                    arg |-> [name |-> name, value |-> value],
                    ret |-> r.ret, raised |-> FALSE]
        /\ UNCHANGED array
        /\ IndexIdle

NextSettings ==
    \/ \E name \in Names, defaultValue \in Defaults : SettingsGet(name, defaultValue)
    \/ \E name \in Names, value \in Values : SettingsSet(name, value)

SpecSettings == InitSettings /\ [][NextSettings]_vars

--------------------------------------------------------------------------
(* treesaver.array.remove *)

\* The longest array given to remove.
MaxLength == 3

Elements == { "x", "y", "z" }

\* The arrays of at most n elements.
ArraysUpTo(n) == UNION { [1..k -> Elements] : k \in 0..n }

\* The `to` argument: left out, or a number.
NoTo == [given |-> FALSE, value |-> 0]
To(value) == [given |-> TRUE, value |-> value]

\* array.slice(start): from position start, counted from the end when
\* negative, to the end.
slice(arr, start) ==
    LET first == IF start < 0
                 THEN (IF Len(arr) + start < 0 THEN 0 ELSE Len(arr) + start)
                 ELSE (IF start > Len(arr) THEN Len(arr) ELSE start)
    IN  SubSeq(arr, first + 1, Len(arr))

\* remove, were `to` an exclusive end.
remove_exclusiveTo(arr, from, to) ==
    LET end == IF to.given /\ to.value # 0 THEN to.value ELSE from + 1
        rest == slice(arr, IF end # 0 THEN end ELSE Len(arr))
        length == IF from < 0 THEN Len(arr) + from ELSE from
        pushed == SubSeq(arr, 1, length) \o rest
    IN  [array |-> pushed, ret |-> Len(pushed)]

\* treesaver.array.remove(array, from, to): gives the array afterwards and
\* the value returned.  `to || from` is from when to is left out or 0, and
\* `... + 1 || array.length` is array.length when the sum is 0.
remove(arr, from, to) ==
    LET last == IF to.given /\ to.value # 0 THEN to.value ELSE from
        rest == slice(arr, IF last + 1 # 0 THEN last + 1 ELSE Len(arr))
        length == IF from < 0 THEN Len(arr) + from ELSE from
        pushed == SubSeq(arr, 1, length) \o rest
    IN  [array |-> pushed, ret |-> Len(pushed)]

InitRemove ==
    /\ children = NewIndex.children
    /\ documents = NewIndex.documents
    /\ documentMap = NewIndex.documentMap
    /\ documentPositions = NewIndex.documentPositions
    /\ nodes = <<>>
    /\ fired = <<>>
    /\ lastUpdate = Caches(NewIndex)
    /\ settings = <<>>
    /\ written = <<>>
    /\ array \in ArraysUpTo(MaxLength)
    /\ call = [op |-> "array"]

\* from and to are positions of the array, or count from its end; the new
\* length, from or array.length + from, is then within the array.  A call
\* that leaves the array longer than MaxLength is left out.
Remove(from, to) ==
    LET r == remove(array, from, to)
    IN  /\ Len(r.array) <= MaxLength
        /\ array' = r.array
        /\ call' = [op |-> "remove",
                    arg |-> [array |-> array, from |-> from, to |-> to],
                    ret |-> r.ret]
        /\ UNCHANGED <<settings, written>>
        /\ IndexIdle

NextRemove ==
    \E from \in (-Len(array))..Len(array) :
        \E to \in {NoTo} \cup { To(t) : t \in (-Len(array))..Len(array) } :
            Remove(from, to)

SpecRemove == InitRemove /\ [][NextRemove]_vars

--------------------------------------------------------------------------
(* What the claims speak of *)

\* The depth-first pre-order of the tree below `kids`: a Document, then its
\* children's subtrees, then its later siblings'.
RECURSIVE Preorder(_, _)
Preorder(heap, kids) ==
    IF kids = <<>> THEN <<>>
    ELSE <<Head(kids)>> \o Preorder(heap, heap[Head(kids)].children)
                        \o Preorder(heap, Tail(kids))

Range(seq) == { seq[i] : i \in 1..Len(seq) }

\* The live tree, flattened, and the Documents in it.
Flat == Preorder(nodes, children)
TreeDocuments == Range(Flat)

\* The positions (0-based) in `docs` of the Documents with url `url`.
PositionsOf(docs, url) == { i - 1 : i \in { j \in 1..Len(docs) : nodes[docs[j]].url = url } }

Max(set) == CHOOSE m \in set : \A other \in set : other <= m

UrlA == <<Origin, "/a">>
UrlB == <<Origin, "/b">>

\* C1: right after update(), documents is the depth-first pre-order of the
\* whole tree and getNumberOfDocuments() the number of Documents in the tree;
\* the tree A with child B gives documents = [A, B], positions [0] and [1].
C1_UpdateFlattensTree ==
    call.op = "update" =>
        /\ documents = Flat
        /\ getNumberOfDocuments(This) = Cardinality(TreeDocuments)
        /\ Cardinality(TreeDocuments) = Len(nodes)
        /\ (/\ children = <<1>>
            /\ nodes = <<[url |-> UrlA, children |-> <<2>>], Document(UrlB)>>)
           => /\ documents = <<1, 2>>
              /\ documentPositions[UrlA] = <<0>>
              /\ documentPositions[UrlB] = <<1>>

C1_Witness ==
    /\ call.op = "update"
    /\ children = <<1>>
    /\ nodes = <<[url |-> UrlA, children |-> <<2>>], Document(UrlB)>>
    /\ documents = <<1, 2>>

\* C2: the caches are those the latest update() computed (empty if there was
\* none), whatever parse() and appendChild() did since, and getDocuments(),
\* getNumberOfDocuments() and getDocumentByIndex(i) answer from them.
C2_CacheStaleUntilUpdate ==
    /\ Caches(This) = lastUpdate
    /\ call.op = "getDocuments" => call.ret = lastUpdate.documents
    /\ call.op = "getNumberOfDocuments" => call.ret = Len(lastUpdate.documents)
    /\ call.op = "getDocumentByIndex" =>
          IF call.arg \in 0..(Len(lastUpdate.documents) - 1)
          THEN call.ret = [type |-> "Document", doc |-> lastUpdate.documents[call.arg + 1]]
          ELSE call.ret = [type |-> "undefined"]

C2_Witness ==
    /\ call.op = "getNumberOfDocuments"
    /\ call.ret = 1
    /\ Len(Flat) = 3
    /\ Len(children) = 2

\* C3: every Document of the flat list is recorded under its url, with its
\* position in documentPositions and itself in documentMap; Documents that
\* share a url are all kept under that url.
C3_CachesRecordEveryDocument ==
    /\ \A i \in 1..Len(documents) :
          LET url == nodes[documents[i]].url
          IN  /\ url \in DOMAIN documentPositions
              /\ url \in DOMAIN documentMap
              /\ (i - 1) \in Range(documentPositions[url])
              /\ documents[i] \in Range(documentMap[url])
    /\ \A url \in DOMAIN documentMap :
          /\ Len(documentMap[url]) = Cardinality(PositionsOf(documents, url))
          /\ Range(documentMap[url]) = { d \in Range(documents) : nodes[d].url = url }

C3_Witness ==
    /\ call.op = "update"
    /\ \E url \in DOMAIN documentMap : Len(documentMap[url]) >= 2
    /\ Cardinality(DOMAIN documentMap) = 2

\* The Documents a walk should call the visitor on: the pre-order up to and
\* including the first Document the visitor returns false on.
RECURSIVE UpToFalse(_, _)
UpToFalse(docs, fn) ==
    IF docs = <<>> THEN <<>>
    ELSE IF fn[Head(docs)] = "false" THEN <<Head(docs)>>
    ELSE <<Head(docs)>> \o UpToFalse(Tail(docs), fn)

\* C4: walk visits in depth-first pre-order; once the visitor returns false
\* nothing more is visited; any other return value lets the walk go on.
C4_WalkStopsOnlyOnFalse ==
    call.op = "walk" =>
        /\ call.ret.visited = UpToFalse(Flat, call.arg)
        /\ (\A d \in DOMAIN call.arg : call.arg[d] # "false") =>
              call.ret.visited = Flat

\* The visitor returned false on a Document that has a child and a later
\* sibling: neither was visited.
C4_Witness ==
    /\ call.op = "walk"
    /\ \E d \in DOMAIN call.arg :
          /\ call.arg[d] = "false"
          /\ nodes[d].children # <<>>
          /\ d = children[1]
          /\ Len(children) = 2
          /\ call.ret.visited = <<d>>

\* The top-level entries of a descriptor array that carry a url.
WithUrl(items) == SelectSeq(items, LAMBDA entry : entry.url # <<>>)

\* The array an input holds once decoded.
Decoded(index) == IF index.type = "string" THEN json_parse(index.text) ELSE index

\* C5: parse() of an array appends, after the top-level children there are,
\* one new Document per top-level entry with a url, in the entries' order,
\* and returns the Documents it appended.
C5_ParseAppendsInOrder ==
    [][(call'.op = "parse" /\ Decoded(call'.arg).type = "array") =>
          LET entries == WithUrl(Decoded(call'.arg).items)
          IN  /\ children' = children \o call'.ret
              /\ Len(call'.ret) = Len(entries)
              /\ \A k \in 1..Len(entries) :
                    /\ call'.ret[k] \in (Len(nodes) + 1)..Len(nodes')
                    /\ nodes'[call'.ret[k]].url = stripHash(absoluteURL(entries[k].url))
                    /\ \A j \in 1..(k - 1) : call'.ret[j] < call'.ret[k]]_vars

\* parse() of [entry without url, entry with url] on an Index that had a
\* top-level Document.
C5_Witness ==
    /\ call.op = "parse"
    /\ call.arg.type = "array"
    /\ Len(call.arg.items) = 2
    /\ call.arg.items[1].url = <<>>
    /\ Len(call.ret) = 1
    /\ Len(children) = 2

\* C6: getDocumentIndex(doc) is the pre-order position in the live tree of
\* the last Document with doc's url, and -1 when there is none.
C6_GetDocumentIndexLastMatch ==
    call.op = "getDocumentIndex" =>
        LET matches == PositionsOf(Flat, call.arg)
        IN  call.ret = IF matches = {} THEN -1 ELSE Max(matches)

\* Two Documents share the url asked for; the later one's position is given.
C6_Witness ==
    /\ call.op = "getDocumentIndex"
    /\ Cardinality(PositionsOf(Flat, call.arg)) = 2
    /\ call.ret = 2
    /\ documents = <<>>

\* C7: get(url) is the live tree's Documents with that url, in pre-order,
\* whether or not update() ran; empty when there is none.
C7_GetIsLive ==
    call.op = "get" =>
        call.ret = SelectSeq(Flat, LAMBDA d : nodes[d].url = call.arg)

\* get() gives a Document added since the last update.
C7_Witness ==
    /\ call.op = "get"
    /\ documents # <<>>
    /\ \E i \in 1..Len(call.ret) : call.ret[i] \notin Range(documents)

\* C8: update() fires one 'index updated' event, carrying the Index, and the
\* Index it carries already has its caches filled from the whole tree.
C8_UpdateFiresOnceAfterWalk ==
    /\ call.op = "update" =>
          /\ Len(fired) = 1
          /\ fired[1].type = "treesaver.index.updated"
          /\ fired[1].index = This
          /\ fired[1].index.documents = Flat
    /\ call.op # "update" => fired = <<>>

C8_Witness ==
    /\ call.op = "update"
    /\ Len(fired) = 1
    /\ Len(fired[1].index.documents) = 3

\* The inputs parse gives up on.
GivenUp(index) ==
    \/ Falsy(index)
    \/ index.type = "string" /\ json_parse(index.text) = Throws
    \/ Decoded(index).type # "array"

\* C9: parse() of a falsy input, of a string that does not decode, or of
\* what is no array returns an empty array, raises nothing, leaves the tree
\* and the caches as they were and fires no event.
C9_ParseGivesUpQuietly ==
    [][(call'.op = "parse" /\ GivenUp(call'.arg)) =>
          /\ call'.ret = <<>>
          /\ ~call'.raised
          /\ fired' = <<>>
          /\ UNCHANGED <<children, nodes, documents, documentMap,
                         documentPositions>>]_vars

\* parse() of a truncated JSON text on an Index that holds Documents.
C9_Witness ==
    /\ call.op = "parse"
    /\ call.arg.type = "string"
    /\ call.arg.text # <<>>
    /\ json_parse(call.arg.text) = Throws
    /\ children # <<>>
    /\ documents # <<>>

\* C10: getDocumentByIndex(i) is documents[i] of the last update for i in
\* [0, documents.length) and undefined for any other i; it changes nothing.
C10_GetDocumentByIndex ==
    [][call'.op = "getDocumentByIndex" =>
          /\ IF call'.arg >= 0 /\ call'.arg < Len(lastUpdate.documents)
             THEN call'.ret = [type |-> "Document",
                               doc |-> lastUpdate.documents[call'.arg + 1]]
             ELSE call'.ret = [type |-> "undefined"]
          /\ UNCHANGED <<children, nodes, documents, documentMap,
                         documentPositions>>]_vars

\* Asked for position -1 of a list of two.
C10_Witness ==
    /\ call.op = "getDocumentByIndex"
    /\ call.arg = -1
    /\ Len(documents) = 2
    /\ call.ret = [type |-> "undefined"]

\* The entries of a `children` field that parseEntry goes through.
ChildEntries(entry) ==
    IF entry.children.isArray THEN entry.children.items ELSE <<>>

\* Document `doc` and what is below it are the entry and, in the entries'
\* order, those of its descendants that have a url and whose ancestors have.
RECURSIVE Mirrors(_, _)
Mirrors(doc, entry) ==
    LET kept == WithUrl(ChildEntries(entry))
    IN  /\ nodes[doc].url = stripHash(absoluteURL(entry.url))
        /\ Len(nodes[doc].children) = Len(kept)
        /\ \A k \in 1..Len(kept) :
              /\ nodes[doc].children[k] # Null
              /\ Mirrors(nodes[doc].children[k], kept[k])

\* C11: no children list holds a null; after parse() a nested entry without
\* url is left out and its siblings with a url are attached in their order.
C11_NoNullChildren ==
    /\ Null \notin Range(children)
    /\ \A d \in 1..Len(nodes) : Null \notin Range(nodes[d].children)
    /\ (call.op = "parse" /\ Decoded(call.arg).type = "array") =>
          LET entries == WithUrl(Decoded(call.arg).items)
          IN  /\ Len(call.ret) = Len(entries)
              /\ \A k \in 1..Len(entries) : Mirrors(call.ret[k], entries[k])

\* parse() of [{url, children: [{no url}, {url}]}].
C11_Witness ==
    /\ call.op = "parse"
    /\ call.arg.type = "array"
    /\ Len(call.arg.items) = 1
    /\ Len(ChildEntries(call.arg.items[1])) = 2
    /\ ChildEntries(call.arg.items[1])[1].url = <<>>
    /\ ChildEntries(call.arg.items[1])[2].url # <<>>
    /\ Len(call.ret) = 1
    /\ Len(nodes[call.ret[1]].children) = 1

\* C12: every Document's url is absolute and without fragment; entries
\* whose urls differ only in the fragment give Documents with one url, equal
\* under equals(), both returned by get(url) and, once update() has run, both
\* under that one key of documentMap and documentPositions.
C12_CanonicalUrl ==
    /\ \A d \in 1..Len(nodes) :
          /\ Head(nodes[d].url) = Origin
          /\ "#" \notin Range(nodes[d].url)
    /\ (call.op = "parse" /\ Decoded(call.arg).type = "array") =>
          LET entries == WithUrl(Decoded(call.arg).items)
              after == update(nodes, This).this
          IN  \A j, k \in 1..Len(entries) :
                (stripHash(entries[j].url) = stripHash(entries[k].url)) =>
                   LET url == nodes[call.ret[j]].url
                   IN  /\ nodes[call.ret[k]].url = url
                       /\ equals(nodes[call.ret[j]],
                                 [type |-> "Document", url |-> nodes[call.ret[k]].url])
                       /\ {call.ret[j], call.ret[k]} \subseteq Range(get(nodes, This, url))
                       /\ {call.ret[j], call.ret[k]} \subseteq Range(after.documentMap[url])
                       /\ Len(after.documentPositions[url]) = Len(after.documentMap[url])

\* parse() of [{url: '/a'}, {url: '/a#x'}].
C12_Witness ==
    /\ call.op = "parse"
    /\ call.arg.type = "array"
    /\ Len(call.arg.items) = 2
    /\ call.arg.items[1].url = <<"/a">>
    /\ call.arg.items[2].url = <<"/a", "#", "x">>
    /\ Len(call.ret) = 2
    /\ nodes[call.ret[1]].url = nodes[call.ret[2]].url

\* Caches as an earlier state of the tree, or anything else, may have left
\* them: with an entry of a url and at a position the tree need not have.
Leftovers ==
    { [documents |-> <<1>>, documentMap |-> (MissingUrl :> <<1>>),
       documentPositions |-> (MissingUrl :> <<0>>)],
      [documents |-> <<1, 1>>, documentMap |-> (UrlA :> <<1, 1>>),
       documentPositions |-> (UrlA :> <<0, 1>>)] }

\* C13: update() puts a new array and new objects in place: the array and
\* objects that were there, such as the array getDocuments() gave before,
\* stay as they were, and what update() leaves does not depend on what the
\* caches held before it.
C13_UpdateReplacesCaches ==
    [][call'.op = "update" =>
          /\ call'.old = Caches(This)
          /\ call.op = "getDocuments" => call'.old.documents = call.ret
          /\ \A left \in Leftovers :
                Caches(update(nodes, [This EXCEPT
                                         !.documents = left.documents,
                                         !.documentMap = left.documentMap,
                                         !.documentPositions = left.documentPositions]).this)
                  = [documents |-> documents', documentMap |-> documentMap',
                     documentPositions |-> documentPositions']]_vars

\* An update() that found a non-empty cache and left a different one.
C13_Witness ==
    /\ call.op = "update"
    /\ call.old.documents # <<>>
    /\ call.old.documents # documents
    /\ DOMAIN call.old.documentMap # DOMAIN documentMap

\* C16: the lists under the urls split the flat list: documentMap[u] and
\* documentPositions[u] are as long as each other, the positions rise,
\* documentMap[u][k] is the Document at position documentPositions[u][k], and
\* every position of the flat list is under one url, once.
C16_CachesPartitionFlatList ==
    /\ DOMAIN documentMap = DOMAIN documentPositions
    /\ \A url \in DOMAIN documentMap :
          LET docs == documentMap[url]
              pos == documentPositions[url]
          IN  /\ Len(docs) = Len(pos)
              /\ \A k \in 1..Len(pos) :
                    /\ pos[k] \in 0..(Len(documents) - 1)
                    /\ docs[k] = documents[pos[k] + 1]
                    /\ \A j \in 1..(k - 1) : pos[j] < pos[k]
    /\ \A i \in 0..(Len(documents) - 1) :
          Cardinality({ url \in DOMAIN documentPositions :
                          i \in Range(documentPositions[url]) }) = 1

\* Two urls, the positions of one around the position of the other.
C16_Witness ==
    /\ call.op = "update"
    /\ UrlA \in DOMAIN documentPositions
    /\ UrlB \in DOMAIN documentPositions
    /\ documentPositions[UrlA] = <<0, 2>>
    /\ documentPositions[UrlB] = <<1>>

\* The canonical urls, in the entries' pre-order, of the entries that have a
\* url and no ancestor without one.
RECURSIVE KeptUrls(_)
KeptUrls(items) ==
    IF items = <<>> THEN <<>>
    ELSE (IF Head(items).url = <<>> THEN <<>>
          ELSE <<stripHash(absoluteURL(Head(items).url))>>
               \o KeptUrls(ChildEntries(Head(items))))
         \o KeptUrls(Tail(items))

\* C17: nothing below an entry without url becomes a Document: the Documents
\* parse() attaches are those of the entries with a url whose ancestors all
\* have one, no Document exists outside the tree, and get(), getDocumentIndex()
\* and the caches find no other.
C17_NothingBelowEntryWithoutUrl ==
    /\ Cardinality(TreeDocuments) = Len(nodes)
    /\ (call.op = "parse" /\ Decoded(call.arg).type = "array") =>
          LET made == Preorder(nodes, call.ret)
          IN  [k \in 1..Len(made) |-> nodes[made[k]].url]
                = KeptUrls(Decoded(call.arg).items)
    /\ \A url \in CanonicalUrls \cup {MissingUrl} :
          LET having == { d \in 1..Len(nodes) : nodes[d].url = url }
              after == update(nodes, This).this
          IN  /\ Range(get(nodes, This, url)) = having
              /\ Len(get(nodes, This, url)) = Cardinality(having)
              /\ (having = {}) =
                    (getDocumentIndex(nodes, This, [type |-> "Document", url |-> url]) = -1)
              /\ (having = {}) = (url \notin DOMAIN after.documentMap)
              /\ Len(after.documents) = Len(nodes)

\* parse() of [{no url, children: [{url: 'http://h/b'}]}, {url: '/a'}] on an
\* empty Index: one Document, and none for 'http://h/b'.
C17_Witness ==
    /\ call.op = "parse"
    /\ call.arg.type = "array"
    /\ Len(call.arg.items) = 2
    /\ call.arg.items[1].url = <<>>
    /\ Len(ChildEntries(call.arg.items[1])) = 1
    /\ ChildEntries(call.arg.items[1])[1].url = <<Origin, "/b">>
    /\ call.arg.items[2].url = <<"/a">>
    /\ Len(nodes) = 1
    /\ get(nodes, This, UrlB) = <<>>

\* C18: while the tree is as the last update() saw it, getDocumentIndex of
\* the Document at flat position i is the last position under its url, which
\* is i or later, and is i just when no later Document has that url.
C18_CacheAndLiveAgree ==
    (documents = Flat) =>
        \A i \in 0..(Len(documents) - 1) :
            LET doc == getDocumentByIndex(This, i).doc
                url == nodes[doc].url
                pos == documentPositions[url]
                at == getDocumentIndex(nodes, This, [type |-> "Document", url |-> url])
            IN  /\ at = pos[Len(pos)]
                /\ at >= i
                /\ (at = i) =
                      ~(\E j \in (i + 1)..(Len(documents) - 1) :
                           nodes[documents[j + 1]].url = url)

\* Three Documents, the first and the last with one url.
C18_Witness ==
    /\ call.op = "update"
    /\ Len(documents) = 3
    /\ nodes[documents[1]].url = nodes[documents[3]].url
    /\ nodes[documents[2]].url # nodes[documents[1]].url
    /\ getDocumentIndex(nodes, This,
                        [type |-> "Document", url |-> nodes[documents[1]].url]) = 2

\* C14: right after new Settings(s), get(k, defaultValue) is s[k] for every
\* own key k of s.
C14_ConstructorCopies ==
    [][(/\ call.op = "Settings"
        /\ call.arg.given
        /\ call'.op = "Settings.get"
        /\ call'.arg.name \in DOMAIN call.arg.object)
          => /\ ~call'.raised
             /\ call'.ret = call.arg.object[call'.arg.name]]_vars

\* `arr` without its positions lo..hi (0-based, inclusive).
Without(arr, lo, hi) ==
    [k \in 1..(Len(arr) - (hi - lo + 1)) |->
        IF k <= lo THEN arr[k] ELSE arr[k + (hi - lo + 1)]]

\* C15: remove(array, from) takes out the element at from, and
\* remove(array, from, to) those at from..to, for positions of the array with
\* from <= to; the others keep their order and the new length is returned.
C15_RemoveTakesOutRange ==
    (call.op = "remove" /\ call.arg.from >= 0 /\ call.arg.from < Len(call.arg.array)) =>
        LET before == call.arg.array
            from == call.arg.from
            to == call.arg.to
        IN  /\ ~to.given =>
                  /\ array = Without(before, from, from)
                  /\ call.ret = Len(before) - 1
            /\ (to.given /\ from <= to.value /\ to.value < Len(before)) =>
                  /\ array = Without(before, from, to.value)
                  /\ call.ret = Len(before) - (to.value - from + 1)
            /\ call.ret = Len(array)

\* remove(['x', 'y', 'z'], 0, 1) left ['z'].
C15_Witness ==
    /\ call.op = "remove"
    /\ call.arg.array = <<"x", "y", "z">>
    /\ call.arg.from = 0
    /\ call.arg.to = To(1)
    /\ array = <<"z">>
    /\ call.ret = 1

\* C19: get(name, defaultValue) is the value of the latest set(name, value),
\* or defaultValue when there was none; set returns the value it stored and
\* changes what get gives for no other name.
C19_GetReturnsLatestSet ==
    [][/\ call'.op = "Settings.get" =>
            /\ ~call'.raised
            /\ call'.ret = IF call'.arg.name \in DOMAIN written
                           THEN written[call'.arg.name]
                           ELSE call'.arg.defaultValue
       /\ call'.op = "Settings.set" =>
            /\ call'.ret = call'.arg.value
            /\ \A name \in Names \ {call'.arg.name}, defaultValue \in Defaults :
                  Settings_get(settings', name, defaultValue)
                    = Settings_get(settings, name, defaultValue)]_vars

==========================================================================
